---------------------------- MODULE Spec2Model ----------------------------
(***************************************************************************)
(* The finite-state controller of fsm.hpp / fsm.cpp: class FSM, its run    *)
(* loop start(), the dispatcher update() and the per-state handlers.       *)
(*                                                                         *)
(* One step of the model is one call made on the engine: a handler run by  *)
(* start()'s loop, an update() called by the owner of the engine, or (in   *)
(* SpecCalls) a direct transitionToState().                                *)
(***************************************************************************)
EXTENDS Integers, Sequences, FiniteSets, TLC

(***************************************************************************)
(* Bounds of the model.                                                    *)
(***************************************************************************)
\* longest stateHistory the drivers let the engine record
MaxHistory == 10
\* latest reading of the steady clock, in ms since millis() was first called
MaxClock == 1
\* longest stateHistory when the owner also calls transitionToState() itself
MaxCalls == 4
\* stateHistory length from which the operator of a start() run that must
\* end types no more command 2, 3 or 4
MaxWork == 3
\* longest stateHistory when the owner also calls setDelay()
MaxPaced == 6
\* longest stateHistory when the owner also calls the reporting functions
MaxReports == 5
\* largest integer the command source is made to deliver (0..MaxCmd)
MaxCmd == 6

(***************************************************************************)
(* Types of the program.                                                   *)
(***************************************************************************)
SystemState ==
    {"INIT", "IDLE", "MOVEMENT", "SHOOTING", "CALCULATION", "ERROR", "STOPPED"}

\* uint32_t holds values modulo 2^32; the model scales that width down to
\* Uint32Wrap values, so that a reading of the clock can be seen to wrap
Uint32Wrap == 4

VARIABLES
    currentState,   \* FSM::currentState
    lastHeartbeat,  \* FSM::lastHeartbeat
    delay,          \* FSM::delay
    errorCount,     \* FSM::errorCount
    stateHistory,   \* FSM::stateHistory, a sequence of <<state, time>>
    moveCount,      \* FSM::moveCount
    clock,          \* steady_clock::now() - start_time of millis(), in ms
    cin,            \* std::cin: "good", or "fail" once an extraction failed
    out,            \* what the last call wrote to std::cout, in order (for
                    \* getStateHistory: the copy it returned)
    pc,             \* the owner: "new", "start" (inside start()), "returned"
                    \* (start() has returned), "driven" (it makes the calls)
    cmd,            \* <<v>>: the last call read command v; <<>>: it read none
    pre,            \* the engine's fields when the last call began
    nTransitions,   \* number of transitionToState calls since construction
    movesSinceShoot,\* performMovement runs since the last performShooting
    consecMoves,    \* performMovement runs in a row (no other action between)
    built           \* the constructor call that built the engine

engine == <<currentState, lastHeartbeat, delay, errorCount, stateHistory, moveCount>>

vars == <<currentState, lastHeartbeat, delay, errorCount, stateHistory,
          moveCount, clock, cin, out, pc, cmd, pre, nTransitions,
          movesSinceShoot, consecMoves, built>>

(***************************************************************************)
(* Collaborators: the clock and the command source.                        *)
(***************************************************************************)
\* the readings the steady clock may give now: it never runs backwards
ClockReadings == {c \in 0..MaxClock : c >= clock}

\* millis(): the elapsed milliseconds, returned as a uint32_t
millis(elapsed) == elapsed % Uint32Wrap

\* the delays handed to FSM(uint32_t)
Delays == {0, 1000}

\* the constructor calls: FSM(), or FSM(d)
Builds == {<<"FSM()">>} \cup {<<"FSM(uint32_t)", d>> : d \in Delays}

\* the delay a constructor call sets: FSM() sets 0, FSM(d) sets d
BuiltDelay(b) == IF b[1] = "FSM()" THEN 0 ELSE b[2]

\* the integers the operator may type
CmdValues == 0..MaxCmd

\* what `cin >> cmd` meets: an integer, a token that is no integer, or the
\* end of the input.  val is the integer typed, or else the value cmd holds
\* where the extraction does not store one (cmd is declared uninitialized).
Tokens ==
    [kind : {"int", "eof"}, val : CmdValues] \cup {[kind |-> "nonnumeric", val |-> 0]}

\* what a call of update() may meet on the input: only performProcess, the
\* handler of IDLE, reads it, and a failed cin no longer looks at the input
Pending ==
    IF currentState # "IDLE" THEN {[kind |-> "eof", val |-> 0]}
    ELSE IF cin = "fail" THEN {t \in Tokens : t.kind = "eof"}
    ELSE Tokens

\* the value of cmd after `cin >> cmd`
extract(tok) ==
    IF cin = "fail" THEN tok.val
    ELSE IF tok.kind = "int" THEN tok.val
    ELSE IF tok.kind = "nonnumeric" THEN 0
    ELSE tok.val

\* the state of cin after `cin >> cmd`
cinAfter(tok) ==
    IF cin = "fail" \/ tok.kind # "int" THEN "fail" ELSE "good"

(***************************************************************************)
(* Reporting.                                                              *)
(***************************************************************************)
printStatus == <<"[Status]", currentState, moveCount, errorCount>>

printStateHistory == <<"[History]", stateHistory>>

Line(text) == <<text>>

(***************************************************************************)
(* The engine.                                                             *)
(***************************************************************************)
\* FSM::FSM() and FSM::FSM(uint32_t delay_ms)
Constructed(d) ==
    /\ currentState = "INIT"
    /\ lastHeartbeat = 0
    /\ delay = d
    /\ errorCount = 0
    /\ moveCount = 0
    /\ stateHistory = << <<"INIT", 0>> >>

\* transitionToState that forgets to record the new state in the history
transitionToState_noRecord(newState, now) ==
    /\ clock' = now
    /\ currentState' = newState
    /\ lastHeartbeat' = millis(now)
    /\ stateHistory' = stateHistory
    /\ nTransitions' = nTransitions + 1

\* transitionToState that keeps one entry, the latest, instead of appending
transitionToState_overwrites(newState, now) ==
    /\ clock' = now
    /\ currentState' = newState
    /\ lastHeartbeat' = millis(now)
    /\ stateHistory' = [stateHistory EXCEPT ![Len(stateHistory)] = <<newState, millis(now)>>]
    /\ nTransitions' = nTransitions + 1

\* transitionToState that records the entry before it takes the heartbeat,
\* so that the entry carries the heartbeat of the transition before
transitionToState_staleStamp(newState, now) ==
    /\ clock' = now
    /\ currentState' = newState
    /\ lastHeartbeat' = millis(now)
    /\ stateHistory' = Append(stateHistory, <<newState, lastHeartbeat>>)
    /\ nTransitions' = nTransitions + 1

transitionToState(newState, now) ==
    /\ clock' = now
    /\ currentState' = newState
    /\ lastHeartbeat' = millis(now)
    /\ stateHistory' = Append(stateHistory, <<newState, millis(now)>>)
    /\ nTransitions' = nTransitions + 1

\* performInit that refuses to start an engine whose delay was never set
performInit_needsDelay(now) ==
    /\ out' = <<Line("Initializing...")>>
    /\ transitionToState(IF delay = 0 THEN "ERROR" ELSE "IDLE", now)
    /\ UNCHANGED <<delay, errorCount, moveCount, cin>>
    /\ cmd' = <<>>

performInit(now) ==
    /\ out' = <<Line("Initializing...")>>
    /\ transitionToState("IDLE", now)
    /\ UNCHANGED <<delay, errorCount, moveCount, cin>>
    /\ cmd' = <<>>

\* performProcess offering only the four choices its comment lists: command
\* 5 is no command and falls to the default branch
performProcess_noStop(tok, now) ==
    LET c == extract(tok) IN
    /\ cin' = cinAfter(tok)
    /\ cmd' = <<c>>
    /\ UNCHANGED <<delay, errorCount, moveCount>>
    /\ CASE c = 1 ->
              /\ out' = <<printStatus, Line("Commands"), printStatus, printStateHistory>>
              /\ UNCHANGED <<currentState, lastHeartbeat, stateHistory, clock, nTransitions>>
         [] c = 2 ->
              /\ out' = <<printStatus, Line("Commands")>>
              /\ transitionToState("MOVEMENT", now)
         [] c = 3 ->
              /\ out' = <<printStatus, Line("Commands")>>
              /\ transitionToState("SHOOTING", now)
         [] c = 4 ->
              /\ out' = <<printStatus, Line("Commands")>>
              /\ transitionToState("CALCULATION", now)
         [] OTHER ->
              /\ out' = <<printStatus, Line("Commands"), Line("Invalid")>>
              /\ transitionToState("ERROR", now)

\* performProcess that ignores a command it does not know and stays in IDLE
performProcess_ignoresInvalid(tok, now) ==
    LET c == extract(tok) IN
    /\ cin' = cinAfter(tok)
    /\ cmd' = <<c>>
    /\ UNCHANGED <<delay, errorCount, moveCount>>
    /\ CASE c = 1 ->
              /\ out' = <<printStatus, Line("Commands"), printStatus, printStateHistory>>
              /\ UNCHANGED <<currentState, lastHeartbeat, stateHistory, clock, nTransitions>>
         [] c = 2 ->
              /\ out' = <<printStatus, Line("Commands")>>
              /\ transitionToState("MOVEMENT", now)
         [] c = 3 ->
              /\ out' = <<printStatus, Line("Commands")>>
              /\ transitionToState("SHOOTING", now)
         [] c = 4 ->
              /\ out' = <<printStatus, Line("Commands")>>
              /\ transitionToState("CALCULATION", now)
         [] c = 5 ->
              /\ out' = <<printStatus, Line("Commands")>>
              /\ transitionToState("STOPPED", now)
         [] OTHER ->
              /\ out' = <<printStatus, Line("Commands"), Line("Invalid")>>
              /\ UNCHANGED <<currentState, lastHeartbeat, stateHistory, clock, nTransitions>>

\* performProcess that records the status command as a transition to IDLE
performProcess_statusTransitions(tok, now) ==
    LET c == extract(tok) IN
    /\ cin' = cinAfter(tok)
    /\ cmd' = <<c>>
    /\ UNCHANGED <<delay, errorCount, moveCount>>
    /\ CASE c = 1 ->
              /\ out' = <<printStatus, Line("Commands"), printStatus, printStateHistory>>
              /\ transitionToState("IDLE", now)
         [] c = 2 ->
              /\ out' = <<printStatus, Line("Commands")>>
              /\ transitionToState("MOVEMENT", now)
         [] c = 3 ->
              /\ out' = <<printStatus, Line("Commands")>>
              /\ transitionToState("SHOOTING", now)
         [] c = 4 ->
              /\ out' = <<printStatus, Line("Commands")>>
              /\ transitionToState("CALCULATION", now)
         [] c = 5 ->
              /\ out' = <<printStatus, Line("Commands")>>
              /\ transitionToState("STOPPED", now)
         [] OTHER ->
              /\ out' = <<printStatus, Line("Commands"), Line("Invalid")>>
              /\ transitionToState("ERROR", now)

performProcess(tok, now) ==
    LET c == extract(tok) IN
    /\ cin' = cinAfter(tok)
    /\ cmd' = <<c>>
    /\ UNCHANGED <<delay, errorCount, moveCount>>
    /\ CASE c = 1 ->
              /\ out' = <<printStatus, Line("Commands"), printStatus, printStateHistory>>
              /\ UNCHANGED <<currentState, lastHeartbeat, stateHistory, clock, nTransitions>>
         [] c = 2 ->
              /\ out' = <<printStatus, Line("Commands")>>
              /\ transitionToState("MOVEMENT", now)
         [] c = 3 ->
              /\ out' = <<printStatus, Line("Commands")>>
              /\ transitionToState("SHOOTING", now)
         [] c = 4 ->
              /\ out' = <<printStatus, Line("Commands")>>
              /\ transitionToState("CALCULATION", now)
         [] c = 5 ->
              /\ out' = <<printStatus, Line("Commands")>>
              /\ transitionToState("STOPPED", now)
         [] OTHER ->
              /\ out' = <<printStatus, Line("Commands"), Line("Invalid")>>
              /\ transitionToState("ERROR", now)

\* performMovement comparing with > where the code has >=
performMovement_offByOne(now) ==
    /\ out' = <<Line("Moving...")>>
    /\ moveCount' = moveCount + 1
    /\ transitionToState(IF moveCount + 1 > 3 THEN "SHOOTING" ELSE "IDLE", now)
    /\ UNCHANGED <<delay, errorCount, cin>>
    /\ cmd' = <<>>

performMovement(now) ==
    /\ out' = <<Line("Moving...")>>
    /\ moveCount' = moveCount + 1
    /\ transitionToState(IF moveCount + 1 >= 3 THEN "SHOOTING" ELSE "IDLE", now)
    /\ UNCHANGED <<delay, errorCount, cin>>
    /\ cmd' = <<>>

\* performShooting that leaves moveCount as it is
performShooting_noReset(now) ==
    /\ out' = <<Line("Shooting...")>>
    /\ moveCount' = moveCount
    /\ transitionToState("IDLE", now)
    /\ UNCHANGED <<delay, errorCount, cin>>
    /\ cmd' = <<>>

\* performShooting that clears the error count along with the move count
performShooting_clearsErrors(now) ==
    /\ out' = <<Line("Shooting...")>>
    /\ moveCount' = 0
    /\ errorCount' = 0
    /\ transitionToState("IDLE", now)
    /\ UNCHANGED <<delay, cin>>
    /\ cmd' = <<>>

performShooting(now) ==
    /\ out' = <<Line("Shooting...")>>
    /\ moveCount' = 0
    /\ transitionToState("IDLE", now)
    /\ UNCHANGED <<delay, errorCount, cin>>
    /\ cmd' = <<>>

\* performCalculation with its two branches exchanged
performCalculation_inverted(now) ==
    /\ out' = <<Line("Calculating...")>>
    /\ IF moveCount = 0
         THEN transitionToState("IDLE", now)
         ELSE transitionToState("ERROR", now)
    /\ UNCHANGED <<delay, errorCount, moveCount, cin>>
    /\ cmd' = <<>>

\* performCalculation that starts the count of moves again
performCalculation_resetsMoves(now) ==
    /\ out' = <<Line("Calculating...")>>
    /\ IF moveCount = 0
         THEN transitionToState("ERROR", now)
         ELSE transitionToState("IDLE", now)
    /\ moveCount' = 0
    /\ UNCHANGED <<delay, errorCount, cin>>
    /\ cmd' = <<>>

performCalculation(now) ==
    /\ out' = <<Line("Calculating...")>>
    /\ IF moveCount = 0
         THEN transitionToState("ERROR", now)
         ELSE transitionToState("IDLE", now)
    /\ UNCHANGED <<delay, errorCount, moveCount, cin>>
    /\ cmd' = <<>>

\* performErrorHandling comparing with >= where the code has >
performErrorHandling_offByOne(now) ==
    /\ out' = <<Line("Error!")>>
    /\ errorCount' = errorCount + 1
    /\ transitionToState(IF errorCount + 1 >= 3 THEN "STOPPED" ELSE "IDLE", now)
    /\ UNCHANGED <<delay, moveCount, cin>>
    /\ cmd' = <<>>

performErrorHandling(now) ==
    /\ out' = <<Line("Error!")>>
    /\ errorCount' = errorCount + 1
    /\ transitionToState(IF errorCount + 1 > 3 THEN "STOPPED" ELSE "IDLE", now)
    /\ UNCHANGED <<delay, moveCount, cin>>
    /\ cmd' = <<>>

\* shutdown that clears the history, as its comment in fsm.hpp asks
shutdown_clearsHistory ==
    /\ out' = <<Line("Shutting down..."), printStateHistory>>
    /\ stateHistory' = <<>>
    /\ UNCHANGED <<currentState, lastHeartbeat, delay, errorCount, moveCount>>
    /\ UNCHANGED <<clock, cin, nTransitions>>
    /\ cmd' = <<>>

shutdown ==
    /\ out' = <<Line("Shutting down..."), printStateHistory>>
    /\ UNCHANGED <<engine, clock, cin, nTransitions>>
    /\ cmd' = <<>>

\* update whose STOPPED case starts the engine again
update_restarts(tok, now) ==
    CASE currentState = "INIT"        -> performInit(now)
      [] currentState = "IDLE"        -> performProcess(tok, now)
      [] currentState = "MOVEMENT"    -> performMovement(now)
      [] currentState = "SHOOTING"    -> performShooting(now)
      [] currentState = "CALCULATION" -> performCalculation(now)
      [] currentState = "ERROR"       -> performErrorHandling(now)
      [] currentState = "STOPPED"     -> performInit(now)

\* update whose MOVEMENT case lacks its break: performMovement falls through
\* into performShooting within the same call
update_fallsThrough(tok, now) ==
    CASE currentState = "INIT"        -> performInit(now)
      [] currentState = "IDLE"        -> performProcess(tok, now)
      [] currentState = "MOVEMENT"    ->
            /\ out' = <<Line("Moving..."), Line("Shooting...")>>
            /\ moveCount' = 0
            /\ clock' = now
            /\ currentState' = "IDLE"
            /\ lastHeartbeat' = millis(now)
            /\ stateHistory' = stateHistory \o
                 << <<IF moveCount + 1 >= 3 THEN "SHOOTING" ELSE "IDLE", millis(now)>>,
                    <<"IDLE", millis(now)>> >>
            /\ nTransitions' = nTransitions + 2
            /\ UNCHANGED <<delay, errorCount, cin>>
            /\ cmd' = <<>>
      [] currentState = "SHOOTING"    -> performShooting(now)
      [] currentState = "CALCULATION" -> performCalculation(now)
      [] currentState = "ERROR"       -> performErrorHandling(now)
      [] currentState = "STOPPED"     -> shutdown

update(tok, now) ==
    CASE currentState = "INIT"        -> performInit(now)
      [] currentState = "IDLE"        -> performProcess(tok, now)
      [] currentState = "MOVEMENT"    -> performMovement(now)
      [] currentState = "SHOOTING"    -> performShooting(now)
      [] currentState = "CALCULATION" -> performCalculation(now)
      [] currentState = "ERROR"       -> performErrorHandling(now)
      [] currentState = "STOPPED"     -> shutdown

(***************************************************************************)
(* Bookkeeping of the run, kept beside the engine: what the engine held    *)
(* when the call began, and the two ways of counting moves.                *)
(***************************************************************************)
Snapshot ==
    [state |-> currentState, moveCount |-> moveCount, errorCount |-> errorCount,
     entries |-> Len(stateHistory)]

\* the handler a call runs decides how the moves are counted: movesSinceShoot
\* counts every performMovement since the last performShooting, consecMoves
\* only those with no performCalculation or performErrorHandling between
CountMoves ==
    /\ pre' = Snapshot
    /\ movesSinceShoot' =
         CASE currentState = "MOVEMENT" -> movesSinceShoot + 1
           [] currentState = "SHOOTING" -> 0
           [] OTHER -> movesSinceShoot
    /\ consecMoves' =
         CASE currentState = "MOVEMENT" -> consecMoves + 1
           [] currentState \in {"SHOOTING", "CALCULATION", "ERROR"} -> 0
           [] OTHER -> consecMoves

(***************************************************************************)
(* The owner of the engine.                                                *)
(***************************************************************************)
Room(cap) == Len(stateHistory) < cap

\* start(): performInit().  start() is the whole run of an engine (section
\* 4.2, and the lifecycle of section 3): the owner calls it on the engine it
\* has just built, and not again once it has returned.
StartInit(cap) ==
    /\ pc = "new"
    /\ Room(cap)
    /\ \E now \in ClockReadings : performInit(now)
    /\ pre' = Snapshot
    /\ UNCHANGED <<movesSinceShoot, consecMoves>>
    /\ pc' = "start"
    /\ UNCHANGED built

\* start(): one turn of while (currentState != STOPPED) update()
StartUpdate(cap) ==
    /\ pc = "start"
    /\ currentState # "STOPPED"
    /\ Room(cap)
    /\ \E tok \in Pending, now \in ClockReadings : update(tok, now)
    /\ CountMoves
    /\ pc' = "start"
    /\ UNCHANGED built

\* start(): the loop is left, shutdown(), return
StartShutdown ==
    /\ pc = "start"
    /\ currentState = "STOPPED"
    /\ shutdown
    /\ CountMoves
    /\ pc' = "returned"
    /\ UNCHANGED built

\* the owner calls update() itself
CallUpdate(cap) ==
    /\ pc # "start"
    /\ Room(cap) \/ currentState = "STOPPED"
    /\ \E tok \in Pending, now \in ClockReadings : update(tok, now)
    /\ CountMoves
    /\ pc' = "driven"
    /\ UNCHANGED built

\* the owner calls transitionToState() itself
CallTransitionToState(cap) ==
    /\ pc # "start"
    /\ Room(cap)
    /\ \E s \in SystemState, now \in ClockReadings : transitionToState(s, now)
    /\ UNCHANGED <<delay, errorCount, moveCount, cin>>
    /\ out' = <<>>
    /\ cmd' = <<>>
    /\ pre' = Snapshot
    /\ UNCHANGED <<movesSinceShoot, consecMoves>>
    /\ pc' = "driven"
    /\ UNCHANGED built

Init ==
    /\ built \in Builds
    /\ Constructed(BuiltDelay(built))
    /\ clock = 0
    /\ cin = "good"
    /\ out = <<>>
    /\ pc = "new"
    /\ cmd = <<>>
    /\ pre = Snapshot
    /\ nTransitions = 0
    /\ movesSinceShoot = 0
    /\ consecMoves = 0

\* the run loop: start(), or update() called by the owner
Next ==
    \/ StartInit(MaxHistory)
    \/ StartUpdate(MaxHistory)
    \/ StartShutdown
    \/ CallUpdate(MaxHistory)

Spec == Init /\ [][Next]_vars

\* the run loop and direct calls of transitionToState()
NextCalls ==
    \/ StartInit(MaxCalls)
    \/ StartUpdate(MaxCalls)
    \/ StartShutdown
    \/ CallUpdate(MaxCalls)
    \/ CallTransitionToState(MaxCalls)

SpecCalls == Init /\ [][NextCalls]_vars

\* start(): one turn of the loop, in a run whose operator stops asking for
\* work (commands 2, 3, 4) once the history holds cap entries.  Nothing
\* holds the loop up: every handler runs however long the history is.
LoopUpdate(cap) ==
    /\ pc = "start"
    /\ currentState # "STOPPED"
    /\ \E tok \in {t \in Pending : Room(cap) \/ extract(t) \notin 2..4},
          now \in ClockReadings : update(tok, now)
    /\ CountMoves
    /\ pc' = "start"
    /\ UNCHANGED built

\* start() alone
NextStart ==
    \/ StartInit(MaxHistory)
    \/ LoopUpdate(MaxWork)
    \/ StartShutdown

\* start() running to its end: the loop goes on whenever the command source
\* delivers, and shutdown() follows the loop
SpecStart ==
    /\ Init
    /\ [][NextStart]_vars
    /\ WF_vars(LoopUpdate(MaxWork))
    /\ WF_vars(StartShutdown)

\* setDelay(d)
setDelay(d) ==
    /\ delay' = d
    /\ UNCHANGED <<currentState, lastHeartbeat, errorCount, stateHistory, moveCount>>
    /\ UNCHANGED <<clock, cin, nTransitions>>
    /\ out' = <<>>
    /\ cmd' = <<>>

\* the owner calls setDelay() between its calls of update()
CallSetDelay ==
    /\ pc # "start"
    /\ \E d \in Delays : setDelay(d)
    /\ pre' = Snapshot
    /\ UNCHANGED <<movesSinceShoot, consecMoves, built>>
    /\ pc' = "driven"

\* the run loop, with the delay set anew at any time between two calls
NextPaced ==
    \/ StartInit(MaxPaced)
    \/ StartUpdate(MaxPaced)
    \/ StartShutdown
    \/ CallUpdate(MaxPaced)
    \/ CallSetDelay

SpecPaced == Init /\ [][NextPaced]_vars

\* getStateHistory(): a const method returning a copy of the history
getStateHistory == <<"getStateHistory", stateHistory>>

\* the owner calls printStatus(), printStateHistory() or getStateHistory()
CallReport ==
    /\ pc # "start"
    /\ out' \in {<<printStatus>>, <<printStateHistory>>, <<getStateHistory>>}
    /\ UNCHANGED <<engine, clock, cin, nTransitions>>
    /\ cmd' = <<>>
    /\ pre' = Snapshot
    /\ UNCHANGED <<movesSinceShoot, consecMoves, built>>
    /\ pc' = "driven"

\* the run loop, with the owner's reporting calls between its calls
NextReports ==
    \/ StartInit(MaxReports)
    \/ StartUpdate(MaxReports)
    \/ StartShutdown
    \/ CallUpdate(MaxReports)
    \/ CallReport

SpecReports == Init /\ [][NextReports]_vars

\* the readings of the steady clock in a process that stays up until the
\* uint32_t returned by millis() has wrapped
LateReadings == {c \in 0..(Uint32Wrap + MaxClock) : c >= clock}

\* the owner calls update() itself, in a process that stays up that long
LateUpdate(cap) ==
    /\ pc # "start"
    /\ Room(cap) \/ currentState = "STOPPED"
    /\ \E tok \in Pending, now \in LateReadings : update(tok, now)
    /\ CountMoves
    /\ pc' = "driven"
    /\ UNCHANGED built

NextLate == LateUpdate(MaxCalls)

SpecLate == Init /\ [][NextLate]_vars

(***************************************************************************)
(* Which handler the last call ran, read off what it printed.              *)
(***************************************************************************)
Ran(text) == out # <<>> /\ out[1] = Line(text)

RanProcess == out # <<>> /\ out[1][1] = "[Status]"

(***************************************************************************)
(* Properties.                                                             *)
(***************************************************************************)
Last(h) == h[Len(h)]

\* C1: whatever sequence of transitionToState calls was made, directly or
\* through start/update and the handlers, the history holds one entry more
\* than the number of calls, and its last entry's state is the current state.
C1_HistoryCountsTransitions ==
    /\ Len(stateHistory) = 1 + nTransitions
    /\ Last(stateHistory)[1] = currentState

\* three transitions were made, the last one a direct call back to INIT
C1_Witness ==
    /\ nTransitions = 3
    /\ pc = "driven"
    /\ out = <<>>
    /\ currentState = "INIT"

\* the decision table of the Idle state
DecisionTable(c) ==
    CASE c = 1 -> "IDLE"
      [] c = 2 -> "MOVEMENT"
      [] c = 3 -> "SHOOTING"
      [] c = 4 -> "CALCULATION"
      [] c = 5 -> "STOPPED"
      [] OTHER -> "ERROR"

\* what the states other than Idle do next, from the counters alone
SelfDriven(p) ==
    CASE p.state = "INIT" -> "IDLE"
      [] p.state = "MOVEMENT" -> IF p.moveCount + 1 >= 3 THEN "SHOOTING" ELSE "IDLE"
      [] p.state = "SHOOTING" -> "IDLE"
      [] p.state = "CALCULATION" -> IF p.moveCount = 0 THEN "ERROR" ELSE "IDLE"
      [] p.state = "ERROR" -> IF p.errorCount + 1 > 3 THEN "STOPPED" ELSE "IDLE"
      [] p.state = "STOPPED" -> "STOPPED"

\* C2: a command read in Idle chooses the next state by the decision table
\* (2 Movement, 3 Shooting, 4 Calculation, 5 Stopped, 1 stays Idle, any other
\* integer Error); a command is read in Idle only, and the handler of every
\* other state chooses the next state from the counters alone.
C2_DecisionTable ==
    /\ cmd # <<>> => pre.state = "IDLE" /\ RanProcess
    /\ RanProcess => cmd # <<>> /\ currentState = DecisionTable(cmd[1])
    /\ out # <<>> /\ ~RanProcess => cmd = <<>> /\ currentState = SelfDriven(pre)

\* command 6, an integer outside 1..5, was read in Idle
C2_Witness ==
    /\ RanProcess
    /\ cmd = <<6>>
    /\ currentState = "ERROR"

\* the edges of section 4
Edges ==
    {<<"INIT", "IDLE">>,
     <<"IDLE", "MOVEMENT">>, <<"IDLE", "SHOOTING">>, <<"IDLE", "CALCULATION">>,
     <<"IDLE", "STOPPED">>, <<"IDLE", "ERROR">>,
     <<"MOVEMENT", "SHOOTING">>, <<"MOVEMENT", "IDLE">>,
     <<"SHOOTING", "IDLE">>,
     <<"CALCULATION", "ERROR">>, <<"CALCULATION", "IDLE">>,
     <<"ERROR", "STOPPED">>, <<"ERROR", "IDLE">>}

\* C3: under the run loop every two consecutive history entries are one of
\* the listed edges; nothing follows a Stopped entry and only the first
\* entry has state Init.
C3_OnlyListedEdges ==
    /\ stateHistory[1][1] = "INIT"
    /\ \A i \in 1..(Len(stateHistory) - 1) :
          /\ <<stateHistory[i][1], stateHistory[i + 1][1]>> \in Edges
          /\ stateHistory[i][1] # "STOPPED"
          /\ stateHistory[i + 1][1] # "INIT"

\* a run that moved three times, shot, and was then stopped by command 5,
\* after which update() was called once more
C3_Witness ==
    /\ Len(stateHistory) = 10
    /\ stateHistory[8][1] = "SHOOTING"
    /\ currentState = "STOPPED"
    /\ Ran("Shutting down...")
    /\ pc = "driven"

\* the number of Error entries in a history
ErrorEntries(h) == Cardinality({i \in 1..Len(h) : h[i][1] = "ERROR"})

\* C4: performErrorHandling adds exactly 1 to error_count and goes to
\* Stopped iff the new error_count exceeds 3, else to Idle; so the 1st, 2nd
\* and 3rd Error handling of a run return to Idle and the 4th stops.
C4_ErrorThreshold ==
    Ran("Error!") =>
        /\ errorCount = pre.errorCount + 1
        /\ currentState = IF errorCount > 3 THEN "STOPPED" ELSE "IDLE"
        /\ ErrorEntries(stateHistory) \in 1..4
        /\ currentState = IF ErrorEntries(stateHistory) = 4 THEN "STOPPED" ELSE "IDLE"

\* the fourth Error handling has stopped the engine
C4_Witness ==
    /\ Ran("Error!")
    /\ ErrorEntries(stateHistory) = 4
    /\ currentState = "STOPPED"

\* C5: from one step of a run to the next error_count never decreases; it
\* changes only in performErrorHandling, by +1.
C5_ErrorCountMonotone ==
    [][\/ errorCount' = errorCount
       \/ /\ currentState = "ERROR"
          /\ Ran("Error!")'
          /\ errorCount' = errorCount + 1]_vars

\* Shooting, Calculation and a status report have each run with errors
\* already counted; here a Shooting has just kept a count of 2
C5_Witness ==
    /\ Ran("Shooting...")
    /\ pre.errorCount = 2
    /\ errorCount = 2

\* C6 as stated: performMovement goes to Shooting exactly on the third move
\* in a row, with no other command's action between the three.
C6_ThirdConsecutiveMove ==
    Ran("Moving...") => (currentState = "SHOOTING" <=> consecMoves = 3)

\* C6 as amended: performMovement goes to Shooting exactly on the third move
\* since the last Shooting (or since construction), whether or not a
\* Calculation or an Error came between the moves, and to Idle on every other
\* move.
C6_ThirdMoveSinceShooting ==
    Ran("Moving...") =>
        /\ movesSinceShoot \in 1..3
        /\ currentState = IF movesSinceShoot = 3 THEN "SHOOTING" ELSE "IDLE"

\* a third move that is not the third in a row has gone to Shooting
C6_Witness ==
    /\ Ran("Moving...")
    /\ currentState = "SHOOTING"
    /\ movesSinceShoot = 3
    /\ consecMoves < 3

\* C7: in every state of the run loop move_count is in 0..3.
C7_MoveCountRange == moveCount \in 0..3

\* the third move has been counted
C7_Witness ==
    /\ Ran("Moving...")
    /\ moveCount = 3

\* C8: after every performShooting, entered by command 3 or from Movement,
\* move_count is 0 and the state is Idle, whatever move_count was.
C8_ShootingResets ==
    Ran("Shooting...") => moveCount = 0 /\ currentState = "IDLE"

\* a Shooting entered from the third Movement, with move_count 3
C8_Witness ==
    /\ Ran("Shooting...")
    /\ pre.moveCount = 3
    /\ stateHistory[Len(stateHistory) - 2][1] = "MOVEMENT"

\* C9: performCalculation goes to Error iff move_count is 0 and to Idle
\* otherwise, and changes neither counter; command 4 with no Movement since
\* the last Shooting leads to Error.
C9_CalculationNeedsMove ==
    Ran("Calculating...") =>
        /\ currentState = IF pre.moveCount = 0 THEN "ERROR" ELSE "IDLE"
        /\ moveCount = pre.moveCount
        /\ errorCount = pre.errorCount
        /\ movesSinceShoot = 0 => currentState = "ERROR"

\* a Calculation with two moves made returned to Idle
C9_Witness ==
    /\ Ran("Calculating...")
    /\ pre.moveCount = 2
    /\ currentState = "IDLE"

InvalidRead == cmd # <<>> => cmd[1] \notin 1..5

\* start() has run shutdown on the stopped engine and returned
Returned ==
    /\ pc = "returned"
    /\ currentState = "STOPPED"
    /\ Ran("Shutting down...")

\* C11: if from some point on every command read in Idle is invalid, a
\* started run reaches Stopped, runs shutdown and returns, with at most 4
\* Error handlings since construction; and Stopped is reached only by
\* command 5 from Idle or by error_count exceeding 3.
C11_ErrorPathTerminates ==
    /\ (<>[]InvalidRead) => [](pc = "start" => <>Returned)
    /\ [](ErrorEntries(stateHistory) <= 4)
    /\ [](currentState = "STOPPED" =>
            \/ errorCount > 3
            \/ stateHistory[Len(stateHistory) - 1][1] = "IDLE")

\* start() has returned after four invalid commands in a row
C11_Witness ==
    /\ Returned
    /\ errorCount = 4
    /\ Len(stateHistory) = 10
    /\ stateHistory[9][1] = "ERROR"

\* C12: after performInit an engine built by FSM() has delay 1000, and an
\* engine built by FSM(d) still has delay d.
C12_InitSetsDefaultDelay ==
    Ran("Initializing...") =>
        delay = IF built = <<"FSM()">> THEN 1000 ELSE BuiltDelay(built)

\* C13: once shutdown has run on the stopped engine, the state history is
\* empty.
C13_ShutdownClearsHistory ==
    Ran("Shutting down...") => stateHistory = <<>>

\* what a call does to <<state, move_count, error_count>>, from the state,
\* the two counters and the command read: the delay is no argument of it
Outcome(p, c) ==
    CASE p.state = "IDLE" ->
            <<DecisionTable(c[1]), p.moveCount, p.errorCount>>
      [] p.state = "MOVEMENT" ->
            <<SelfDriven(p), p.moveCount + 1, p.errorCount>>
      [] p.state = "SHOOTING" ->
            <<SelfDriven(p), 0, p.errorCount>>
      [] p.state = "ERROR" ->
            <<SelfDriven(p), p.moveCount, p.errorCount + 1>>
      [] OTHER ->
            <<SelfDriven(p), p.moveCount, p.errorCount>>

\* C14: the delay never decides a transition.  Whatever the delay is, by
\* constructor or by setDelay, each call takes the engine from its state and
\* counters, with the command read, to one and the same state and counters;
\* so two engines that differ in delay only and read the same commands agree
\* on state, move_count and error_count at every step.  setDelay changes
\* none of the three.
C14_DelayNeverDecides ==
    /\ out # <<>> => <<currentState, moveCount, errorCount>> = Outcome(pre, cmd)
    /\ out = <<>> => <<currentState, moveCount, errorCount>> =
                        <<pre.state, pre.moveCount, pre.errorCount>>

\* an engine whose delay was changed by setDelay has gone from INIT through
\* a Calculation that failed
C14_Witness ==
    /\ delay # BuiltDelay(built)
    /\ Ran("Calculating...")
    /\ currentState = "ERROR"

\* the last call was command 1 in Idle: status, prompt, status, history
StatusCommand == RanProcess /\ Len(out) = 4 /\ cmd = <<1>>

\* the last call was a call of one reporting function by the owner
ReportCall ==
    /\ Len(out) = 1
    /\ out[1][1] \in {"[Status]", "[History]", "getStateHistory"}

\* C15: command 1 in Idle, and any call of getStateHistory, printStatus or
\* printStateHistory, leaves state, heartbeat, delay, both counters and the
\* history as they were; no transition is recorded, and after command 1 the
\* engine is still in Idle.
C15_ReportingMutatesNothing ==
    [][(StatusCommand \/ ReportCall)' =>
          /\ UNCHANGED <<currentState, lastHeartbeat, delay, moveCount,
                         errorCount, stateHistory, nTransitions>>
          /\ StatusCommand' => currentState' = "IDLE"]_vars

\* the status command was answered after a move, and reported the history
\* the engine still holds
C15_Witness ==
    /\ StatusCommand
    /\ moveCount = 1
    /\ out[4] = <<"[History]", stateHistory>>
    /\ Len(stateHistory) = 4

IsPrefix(g, h) == Len(g) <= Len(h) /\ \A i \in 1..Len(g) : g[i] = h[i]

\* C16: the history is append-only and never empty: each step's history has
\* the history before it as a prefix, its first entry is always (Init, 0),
\* and after performInit on a fresh engine it is exactly
\* [(Init, 0), (Idle, t1)], t1 the heartbeat then taken.
C16_HistoryAppendOnly ==
    /\ [][IsPrefix(stateHistory, stateHistory')]_vars
    /\ [](stateHistory # <<>> /\ stateHistory[1] = <<"INIT", 0>>)
    /\ [](Ran("Initializing...") /\ pre.entries = 1 =>
            stateHistory = << <<"INIT", 0>>, <<"IDLE", lastHeartbeat>> >>)

\* performInit has run on a fresh engine at clock reading 1
C16_Witness ==
    /\ Ran("Initializing...")
    /\ pre.entries = 1
    /\ stateHistory = << <<"INIT", 0>>, <<"IDLE", 1>> >>

\* the line by which each handler is known in the output; performProcess
\* is known by its prompt
Banner(state) ==
    CASE state = "INIT"        -> Line("Initializing...")
      [] state = "IDLE"        -> Line("Commands")
      [] state = "MOVEMENT"    -> Line("Moving...")
      [] state = "SHOOTING"    -> Line("Shooting...")
      [] state = "CALCULATION" -> Line("Calculating...")
      [] state = "ERROR"       -> Line("Error!")
      [] state = "STOPPED"     -> Line("Shutting down...")

\* the handlers a call ran, by their lines in its output
HandlersRun == {i \in 1..Len(out) : \E st \in SystemState : out[i] = Banner(st)}

\* C17: each call of update() runs exactly one handler, the one of the
\* state the call began in, and records at most one transition: the history
\* grows by one entry, or by none when the state was Idle and the command 1,
\* or the state was Stopped.  The handler of the state just entered does not
\* run in the same call.
C17_OneHandlerPerUpdate ==
    out # <<>> =>
        /\ Cardinality(HandlersRun) = 1
        /\ \A i \in HandlersRun : out[i] = Banner(pre.state)
        /\ Len(stateHistory) - pre.entries =
              IF (pre.state = "IDLE" /\ cmd = <<1>>) \/ pre.state = "STOPPED"
              THEN 0 ELSE 1

\* the third Movement entered Shooting and the call ended there: one entry
\* was added and move_count is still 3
C17_Witness ==
    /\ Ran("Moving...")
    /\ currentState = "SHOOTING"
    /\ moveCount = 3
    /\ Len(stateHistory) = pre.entries + 1

\* the readings millis() has given so far were non-decreasing: the elapsed
\* time still fits the uint32_t
ClockMonotone == clock < Uint32Wrap

\* C18: after every transition last_heartbeat is the timestamp of the last
\* history entry, and, as long as the clock's readings are non-decreasing,
\* the timestamps of the history are non-decreasing from first to last.
C18_TimestampsFollowClock ==
    /\ lastHeartbeat = Last(stateHistory)[2]
    /\ ClockMonotone =>
          \A i \in 1..(Len(stateHistory) - 1) :
              stateHistory[i][2] <= stateHistory[i + 1][2]

\* three transitions at three different readings of the clock
C18_Witness ==
    /\ ClockMonotone
    /\ Len(stateHistory) = 4
    /\ stateHistory[2][2] = 1
    /\ stateHistory[3][2] = 2
    /\ stateHistory[4][2] = 3
    /\ lastHeartbeat = 3

\* C19: under the run loop move_count is 0, 1 or 2 whenever the state is
\* Idle, and it is 3 only while the state is Shooting, entered from
\* Movement.
C19_IdleMoveCount ==
    /\ currentState = "IDLE" => moveCount \in 0..2
    /\ moveCount = 3 =>
          /\ currentState = "SHOOTING"
          /\ stateHistory[Len(stateHistory) - 1][1] = "MOVEMENT"

\* the engine is back in Idle, a command about to be read, with two moves
\* counted
C19_Witness ==
    /\ currentState = "IDLE"
    /\ Ran("Calculating...")
    /\ moveCount = 2

\* C20: under the run loop error_count is in 0..4 between handler calls and
\* is 4 only when the state is Stopped; so a fifth Error is never entered,
\* and a Stopped state with error_count below 4 was entered from Idle, by
\* command 5.
C20_ErrorCountRange ==
    /\ errorCount \in 0..4
    /\ errorCount = 4 => currentState = "STOPPED"
    /\ ErrorEntries(stateHistory) <= 4
    /\ currentState = "STOPPED" /\ errorCount < 4 =>
          stateHistory[Len(stateHistory) - 1][1] = "IDLE"

\* the engine was stopped by command 5 with three errors counted
C20_Witness ==
    /\ currentState = "STOPPED"
    /\ errorCount = 3
    /\ RanProcess
    /\ cmd = <<5>>

=============================================================================
